---- MODULE Spec2Model ----
(***************************************************************************)
(* State-machine model of notebook_ex_neural_network_pdb.ipynb: loading    *)
(* the PDB dataset, char_to_float, the two feature-extraction loops        *)
(* (Problem 1 and Problem 2), the train/test split, the StandardScaler     *)
(* normalisation, the tensor conversion and the training loop.             *)
(*                                                                         *)
(* Numbers held in numpy arrays are modelled as exact rationals <<n, d>>   *)
(* in lowest terms with d > 0; <<0, 0>> is nan (the value of 0.0/0).       *)
(* Python indices are kept 0-based as in the source; TLA+ sequences are    *)
(* 1-based, so data[i] of the source is data[i + 1] here.                  *)
(***************************************************************************)
EXTENDS Integers, Sequences, FiniteSets, TLC

(***************************************************************************)
(* Bounds of the model                                                     *)
(***************************************************************************)
\* lines in the dataset file
MaxLines == 2
\* entries in the whole dataset file
MaxEntries == 2
\* variants of the values an entry carries
MaxVal == 3
\* characters of a label given to char_to_float
MaxLen == 4
\* rows of all_inputs when the split is checked alone
MaxRows == 7
\* training rows beyond one full batch
MaxExtra == 1
\* largest loss a batch yields
MaxLoss == 1

VARIABLES
    pc,                 \* position in the notebook
    problem,            \* 1: Problem 1 cells, 2: Problem 2 cells
    err,                \* exception that ended the running cell, or "none"
    file,               \* lines of dataset_6000.gz
    jsons, data,        \* the loading cells
    i, all_inputs, all_targets, indices,          \* feature extraction
    train_indices, test_indices,
    inputs_training, targets_training, inputs_testing, targets_testing,
    scaler,
    input_tensor, target_tensor,
    s, result,          \* argument and outcome of a call of char_to_float
    loss_table,         \* the loss at each state of the model's parameters
    theta,              \* state of the model's parameters
    grad,               \* batches whose gradient is accumulated in .grad
    lr, last_epoch,     \* optimizer's learning rate, scheduler's counter
    step_count,         \* optimizer steps taken so far
    epoch, inputs, targets, outputs, loss, epoch_loss, losses,
    trace,              \* calls made on the current batch, in order
    batch_log           \* batches the optimizer stepped on in the current epoch

loadVars == <<file, jsons, data>>
extractVars == <<i, all_inputs, all_targets, indices>>
splitVars == <<train_indices, test_indices, inputs_training, targets_training,
               inputs_testing, targets_testing>>
prepVars == <<scaler, input_tensor, target_tensor>>
c2fVars == <<s, result>>
modelVars == <<loss_table, theta, grad, lr, last_epoch, step_count>>
loopVars == <<epoch, inputs, targets, outputs, loss, epoch_loss, losses, trace,
              batch_log>>
trainVars == <<modelVars, loopVars>>

(***************************************************************************)
(* float64 values as exact rationals                                       *)
(***************************************************************************)
Abs(x) == IF x < 0 THEN -x ELSE x

RECURSIVE GCD(_, _)
GCD(a, b) == IF b = 0 THEN a ELSE GCD(b, a % b)

NaN == <<0, 0>>

Frac(n, d) ==
    IF d = 0 THEN NaN
    ELSE LET g == GCD(Abs(n), Abs(d))
             sg == IF d < 0 THEN -1 ELSE 1
         IN  <<(sg * n) \div g, Abs(d) \div g>>

IsNaN(x) == x[2] = 0

FAdd(x, y) ==
    IF IsNaN(x) \/ IsNaN(y) THEN NaN
    ELSE Frac(x[1] * y[2] + y[1] * x[2], x[2] * y[2])

FSub(x, y) ==
    IF IsNaN(x) \/ IsNaN(y) THEN NaN
    ELSE Frac(x[1] * y[2] - y[1] * x[2], x[2] * y[2])

FMul(x, y) ==
    IF IsNaN(x) \/ IsNaN(y) THEN NaN
    ELSE Frac(x[1] * y[1], x[2] * y[2])

\* x / k for a float x and a Python int k; numpy gives nan for 0.0/0
FDivInt(x, k) ==
    IF IsNaN(x) THEN NaN ELSE Frac(x[1], x[2] * k)

RECURSIVE FSum(_)
FSum(xs) == IF xs = <<>> THEN Frac(0, 1) ELSE FAdd(Head(xs), FSum(Tail(xs)))

(***************************************************************************)
(* char_to_float                                                           *)
(***************************************************************************)
Letters == {"P", "c"}
Digits == {"1", "2"}
Symbols == {"/", "-", ":"}
Alphabet == Letters \cup Digits \cup Symbols \cup {" "}

ord(c) ==
    CASE c = "P" -> 80
      [] c = "c" -> 99
      [] c = "1" -> 49
      [] c = "2" -> 50
      [] c = "/" -> 47
      [] c = "-" -> 45
      [] c = ":" -> 58
      [] c = " " -> 32

DigitVal(c) == ord(c) - 48

\* str.split(): the maximal runs of non-whitespace characters, in order
RECURSIVE split_from(_, _, _)
split_from(str, k, cur) ==
    IF k > Len(str)
    THEN IF cur = <<>> THEN <<>> ELSE <<cur>>
    ELSE IF str[k] = " "
         THEN IF cur = <<>> THEN split_from(str, k + 1, <<>>)
              ELSE <<cur>> \o split_from(str, k + 1, <<>>)
         ELSE split_from(str, k + 1, Append(cur, str[k]))

split(str) == split_from(str, 1, <<>>)

\* str.isalpha(): at least one character and all of them letters
isalpha(t) == Len(t) > 0 /\ \A k \in 1..Len(t) : t[k] \in Letters

\* the tokens over Alphabet that float() accepts: an optional sign, then digits
FloatDigits(t) == IF Len(t) > 0 /\ t[1] = "-" THEN Tail(t) ELSE t

FloatAccepts(t) ==
    /\ Len(FloatDigits(t)) > 0
    /\ \A k \in 1..Len(FloatDigits(t)) : FloatDigits(t)[k] \in Digits

RECURSIVE DecValue(_)
DecValue(ds) ==
    IF ds = <<>> THEN 0
    ELSE 10 * DecValue(SubSeq(ds, 1, Len(ds) - 1)) + DigitVal(ds[Len(ds)])

float(t) ==
    IF t[1] = "-" THEN Frac(-DecValue(FloatDigits(t)), 1)
    ELSE Frac(DecValue(FloatDigits(t)), 1)

\* the division by 100 left out
LetterValue_unscaled(t) == Frac(ord(t[1]), 1)

\* float(ord(parts[i]))/100
LetterValue(t) == Frac(ord(t[1]), 100)

\* one pass of the loop body: the value stored in parts[i], or the exception
ConvertPart(t) ==
    IF isalpha(t)
    THEN IF Len(t) = 1 THEN [err |-> "none", value |-> LetterValue(t)]
         ELSE [err |-> "TypeError", value |-> NaN]
    ELSE IF FloatAccepts(t) THEN [err |-> "none", value |-> float(t)]
         ELSE [err |-> "ValueError", value |-> NaN]

\* the for loop over parts, left to right; the first exception ends it
RECURSIVE ConvertParts(_, _, _)
ConvertParts(parts, k, done) ==
    IF k > Len(parts) THEN [err |-> "none", parts |-> done]
    ELSE LET c == ConvertPart(parts[k])
         IN  IF c.err # "none" THEN [err |-> c.err, parts |-> done]
             ELSE ConvertParts(parts, k + 1, Append(done, c.value))

\* np.sum(parts)/len(parts)
MeanOf(parts) == FDivInt(FSum(parts), Len(parts))

char_to_float(str) ==
    LET c == ConvertParts(split(str), 1, <<>>)
    IN  IF c.err # "none" THEN [err |-> c.err, value |-> NaN]
        ELSE [err |-> "none", value |-> MeanOf(c.parts)]

(***************************************************************************)
(* The dataset: entries of the PDB file                                    *)
(***************************************************************************)
TopKeys == {"exptl_crystal", "cell", "symmetry", "pdbx_seq_one_letter_code"}
CrystalKeys == {"density_matthews", "density_percent_sol"}

\* An entry: its top-level keys, the keys of entry['exptl_crystal'][0], and
\* the variant v that fixes the values stored under the keys it has.
Full(v) == [keys |-> TopKeys, crystal |-> CrystalKeys, v |-> v]

Without(e, f) ==
    IF f \in TopKeys
    THEN [e EXCEPT !.keys = @ \ {f},
                   !.crystal = IF f = "exptl_crystal" THEN {} ELSE @]
    ELSE [e EXCEPT !.crystal = @ \ {f}]

EmptyEntry == [keys |-> {}, crystal |-> {}, v |-> 1]

\* complete entries, entries lacking exactly one field, and the empty entry
EntryKinds ==
    {Full(v) : v \in 1..MaxVal}
        \cup {Without(Full(1), f) : f \in TopKeys \cup CrystalKeys}
        \cup {EmptyEntry}

\* space-group labels of the variants: "P 1", "P 21", "P 21/c"
LabelTable ==
    << <<"P", " ", "1">>,
       <<"P", " ", "2", "1">>,
       <<"P", " ", "2", "1", "/", "c">> >>

density_matthews(e) == Frac(2 * e.v + 3, 2)
density_percent_sol(e) == Frac(40 + 5 * e.v, 1)
cell(e) ==
    [angle_alpha |-> Frac(90, 1), angle_beta |-> Frac(90 + e.v, 1),
     angle_gamma |-> Frac(90, 1), length_a |-> Frac(10 * e.v, 1),
     length_b |-> Frac(20, 1), length_c |-> Frac(30 + e.v, 1)]
space_group_name_hm(e) == LabelTable[((e.v - 1) % Len(LabelTable)) + 1]
int_tables_number(e) == Frac(3 * e.v + 1, 1)
\* len(entry['pdbx_seq_one_letter_code'])
SeqLen(e) == e.v + 1

Elements == {[entry |-> e] : e \in EntryKinds}

LinesUpTo(m) == UNION {[1..n -> Elements] : n \in 0..m}

\* a line of the file: the text of one JSON document
Encode(doc) == [text |-> doc]
json_loads(line) == line.text

\* files of exactly k lines holding at most budget entries
RECURSIVE FilesOf(_, _)
FilesOf(k, budget) ==
    IF k = 0 THEN {<<>>}
    ELSE UNION {{<<Encode(l)>> \o rest : rest \in FilesOf(k - 1, budget - Len(l))}
                    : l \in LinesUpTo(budget)}

Files == UNION {FilesOf(k, MaxEntries) : k \in 0..MaxLines}

(***************************************************************************)
(* Loading cells                                                           *)
(***************************************************************************)
\* for line in file: jsons.append(json.loads(line))
ParsedLines(f) == [k \in 1..Len(f) |-> json_loads(f[k])]

LoadCell ==
    /\ pc = "load"
    /\ jsons' = ParsedLines(file)
    /\ pc' = "data"
    /\ UNCHANGED <<problem, err, file, data, extractVars, splitVars, prepVars, c2fVars, trainVars>>

\* what the cell binds to data
DataOf(js) == js[1]

DataCell ==
    /\ pc = "data"
    /\ IF jsons = <<>>
       THEN /\ err' = "IndexError"
            /\ pc' = "error"
            /\ UNCHANGED data
       ELSE /\ data' = DataOf(jsons)
            /\ pc' = "extract"
            /\ UNCHANGED err
    /\ UNCHANGED <<problem, file, jsons, extractVars, splitVars, prepVars, c2fVars, trainVars>>

(***************************************************************************)
(* Feature extraction loops                                                *)
(***************************************************************************)
Width(p) == IF p = 1 THEN 1 ELSE 9

Zero == Frac(0, 1)

\* np.zeros((rows, cols))
zeros(rows, cols) == [r \in 1..rows |-> [c \in 1..cols |-> Zero]]

\* line 121: the membership test of Problem 1; `and` short-circuits
Test1(e) ==
    /\ "exptl_crystal" \in e.keys
    /\ "density_matthews" \in e.crystal
    /\ "density_percent_sol" \in e.crystal

\* line 395: the membership test of Problem 2: "pass", "skip" or the exception
Test2(e) ==
    IF "cell" \notin e.keys THEN "skip"
    ELSE IF "exptl_crystal" \notin e.keys THEN "KeyError"
    ELSE IF "density_matthews" \in e.crystal THEN "pass" ELSE "skip"

\* lines 396-401: the six cell columns written into row old
CellColumns(e, old) ==
    [old EXCEPT ![1] = cell(e).angle_alpha, ![2] = cell(e).angle_beta,
                ![3] = cell(e).angle_gamma, ![4] = cell(e).length_a,
                ![5] = cell(e).length_b, ![6] = cell(e).length_c]

\* lines 396-404: the row after the assignments that ran, and the exception
\* that stopped them
Row2(e, old) ==
    LET w6 == CellColumns(e, old)
    IN  IF "symmetry" \notin e.keys THEN [err |-> "KeyError", row |-> w6]
        ELSE LET r == char_to_float(space_group_name_hm(e))
             IN  IF r.err # "none" THEN [err |-> r.err, row |-> w6]
                 ELSE LET w8 == [w6 EXCEPT ![7] = r.value,
                                           ![8] = int_tables_number(e)]
                      IN  IF "pdbx_seq_one_letter_code" \notin e.keys
                          THEN [err |-> "KeyError", row |-> w8]
                          ELSE [err |-> "none",
                                row |-> [w8 EXCEPT ![9] = Frac(SeqLen(e) * 110, 1)]]

Row1(e) == <<density_matthews(e)>>

Target(p, e) ==
    IF p = 1 THEN <<density_percent_sol(e)>> ELSE <<density_matthews(e)>>

ExtractInit ==
    /\ pc = "extract"
    /\ all_inputs' = zeros(Len(data), Width(problem))
    /\ all_targets' = zeros(Len(data), 1)
    /\ indices' = <<>>
    /\ i' = 0
    /\ pc' = "extract_loop"
    /\ UNCHANGED <<problem, err, loadVars, splitVars, prepVars, c2fVars, trainVars>>

\* one pass of the loop of Problem 1 (lines 119-124)
ExtractStep1 ==
    /\ pc = "extract_loop"
    /\ problem = 1
    /\ i < Len(data)
    /\ LET entry == data[i + 1].entry
       IN  IF Test1(entry)
           THEN /\ all_inputs' = [all_inputs EXCEPT ![i + 1] = Row1(entry)]
                /\ all_targets' = [all_targets EXCEPT ![i + 1] = Target(1, entry)]
                /\ indices' = Append(indices, i)
           ELSE UNCHANGED <<all_inputs, all_targets, indices>>
    /\ i' = i + 1
    /\ UNCHANGED <<pc, problem, err, loadVars, splitVars, prepVars, c2fVars, trainVars>>

\* one pass of the loop of Problem 2 (lines 393-406)
ExtractStep2 ==
    /\ pc = "extract_loop"
    /\ problem = 2
    /\ i < Len(data)
    /\ LET entry == data[i + 1].entry
           t == Test2(entry)
           r == Row2(entry, all_inputs[i + 1])
       IN  CASE t = "skip" ->
                    /\ i' = i + 1
                    /\ UNCHANGED <<pc, err, all_inputs, all_targets, indices>>
             [] t = "KeyError" ->
                    /\ err' = "KeyError"
                    /\ pc' = "error"
                    /\ UNCHANGED <<i, all_inputs, all_targets, indices>>
             [] t = "pass" /\ r.err # "none" ->
                    /\ all_inputs' = [all_inputs EXCEPT ![i + 1] = r.row]
                    /\ err' = r.err
                    /\ pc' = "error"
                    /\ UNCHANGED <<i, all_targets, indices>>
             [] t = "pass" /\ r.err = "none" ->
                    /\ all_inputs' = [all_inputs EXCEPT ![i + 1] = r.row]
                    /\ all_targets' = [all_targets EXCEPT ![i + 1] = Target(2, entry)]
                    /\ indices' = Append(indices, i)
                    /\ i' = i + 1
                    /\ UNCHANGED <<pc, err>>
    /\ UNCHANGED <<problem, loadVars, splitVars, prepVars, c2fVars, trainVars>>

\* arr[idx]: the rows of arr at the (0-based) positions idx, in that order
TakeRows(arr, idx) == [k \in 1..Len(idx) |-> arr[idx[k] + 1]]

\* the selection by indices left out
FilterRows_unfiltered(arr, idx) == arr

\* what all_inputs[indices] / all_targets[indices] select (lines 127-128)
FilterRows(arr, idx) == TakeRows(arr, idx)

ExtractFilter ==
    /\ pc = "extract_loop"
    /\ i = Len(data)
    /\ all_inputs' = FilterRows(all_inputs, indices)
    /\ all_targets' = FilterRows(all_targets, indices)
    /\ pc' = "split"
    /\ UNCHANGED <<problem, err, loadVars, i, indices, splitVars, prepVars, c2fVars, trainVars>>

(***************************************************************************)
(* Train/test split                                                        *)
(***************************************************************************)
\* the orderings of the elements of S: what np.random.permutation may return
RECURSIVE Perms(_)
Perms(S) ==
    IF S = {} THEN {<<>>}
    ELSE UNION {{<<x>> \o p : p \in Perms(S \ {x})} : x \in S}

\* the floor division taken first
SplitPoint_divfirst(n) == 5 * (n \div 6)

\* 5 * len(all_inputs) // 6: * and // associate to the left
SplitPoint(n) == (5 * n) \div 6

\* indices[:5 * len(all_inputs) // 6] and indices[5 * len(all_inputs) // 6:]
TrainPart(perm, n) == SubSeq(perm, 1, SplitPoint(n))
TestPart(perm, n) == SubSeq(perm, SplitPoint(n) + 1, Len(perm))

SplitCell ==
    /\ pc = "split"
    /\ \E perm \in Perms(0..(Len(all_inputs) - 1)) :
          /\ indices' = perm
          /\ train_indices' = TrainPart(perm, Len(all_inputs))
          /\ test_indices' = TestPart(perm, Len(all_inputs))
          /\ inputs_training' = TakeRows(all_inputs, train_indices')
          /\ targets_training' = TakeRows(all_targets, train_indices')
          /\ inputs_testing' = TakeRows(all_inputs, test_indices')
          /\ targets_testing' = TakeRows(all_targets, test_indices')
    /\ pc' = "scale"
    /\ UNCHANGED <<problem, err, loadVars, i, all_inputs, all_targets, prepVars, c2fVars, trainVars>>

(***************************************************************************)
(* StandardScaler                                                          *)
(***************************************************************************)
Column(X, c) == [r \in 1..Len(X) |-> X[r][c]]

Squares(xs) == [k \in 1..Len(xs) |-> FMul(xs[k], xs[k])]

\* mean_ of a column
Mean(xs) == FDivInt(FSum(xs), Len(xs))

\* var_ of a column: the population variance
Var(xs) == FSub(FDivInt(FSum(Squares(xs)), Len(xs)), FMul(Mean(xs), Mean(xs)))

\* the scaler fitted on training and testing rows together
FitRows_all(training, testing) == training \o testing

\* the rows the scaler is fitted on (line 182)
FitRows(training, testing) == training

\* StandardScaler().fit(X) for X with at least one row
fit(X) ==
    [n_samples |-> Len(X),
     mean |-> [c \in 1..Len(X[1]) |-> Mean(Column(X, c))],
     var |-> [c \in 1..Len(X[1]) |-> Var(Column(X, c))]]

\* (x - mean_) / scale_, where scale_ is sqrt(var_), or 1 for a constant
\* column: the value dev / sqrt(var) (dev itself when var = 0)
Scaled(x, m, v) == [dev |-> FSub(x, m), var |-> v]

transform(sc, X) ==
    [r \in 1..Len(X) |->
        [c \in 1..Len(X[r]) |-> Scaled(X[r][c], sc.mean[c], sc.var[c])]]

NoScaler == [n_samples |-> 0, mean |-> <<>>, var |-> <<>>]

\* fit_transform and transform refuse an array of 0 rows with a ValueError
ScaleCell ==
    /\ pc = "scale"
    /\ IF Len(FitRows(inputs_training, inputs_testing)) = 0 \/ Len(inputs_testing) = 0
       THEN /\ err' = "ValueError"
            /\ pc' = "error"
            /\ UNCHANGED <<scaler, inputs_training, inputs_testing>>
       ELSE /\ scaler' = fit(FitRows(inputs_training, inputs_testing))
            /\ inputs_training' = transform(scaler', inputs_training)
            /\ inputs_testing' = transform(scaler', inputs_testing)
            /\ pc' = "tensor"
            /\ UNCHANGED err
    /\ UNCHANGED <<problem, loadVars, extractVars, train_indices, test_indices,
                   targets_training, targets_testing, input_tensor, target_tensor,
                   c2fVars, trainVars>>

(***************************************************************************)
(* Tensors                                                                 *)
(***************************************************************************)
\* torch.tensor(array, dtype=torch.float32): the rows, in the same order
torch_tensor(arr) == [dtype |-> "float32", rows |-> arr]

NoTensor == [dtype |-> "none", rows |-> <<>>]

\* the array the training tensor is built from (line 192)
TensorRows(training, testing) == training

TensorCell ==
    /\ pc = "tensor"
    /\ input_tensor' = torch_tensor(TensorRows(inputs_training, inputs_testing))
    /\ target_tensor' = torch_tensor(TensorRows(targets_training, targets_testing))
    /\ pc' = "train"
    /\ UNCHANGED <<problem, err, loadVars, extractVars, splitVars, scaler, c2fVars, trainVars>>

(***************************************************************************)
(* Model, optimizer, scheduler and the training loop                       *)
(***************************************************************************)
num_epochs == 1000
BatchSize == 64
step_size == 50
gamma == Frac(1, 2)
\* Adam's learning rate when none is given
InitialLr == Frac(1, 1000)

\* The network's parameters are abstracted to two states that an optimizer
\* step alternates between; loss_table gives the loss each of them yields.
ThetaStates == {0, 1}
LossTables == [ThetaStates -> 0..MaxLoss]

\* a data loader that drops an incomplete last batch
NumBatches_drop_last(t) == Len(t.rows) \div BatchSize

\* DataLoader(TensorDataset(...), batch_size=64): shuffle and drop_last are off
NumBatches(t) == (Len(t.rows) + BatchSize - 1) \div BatchSize

Min(a, b) == IF a < b THEN a ELSE b

\* the rows of batch b (0-based) of tensor t
Batch(t, b) ==
    SubSeq(t.rows, b * BatchSize + 1, Min((b + 1) * BatchSize, Len(t.rows)))

trainFrame == <<problem, err, loadVars, all_inputs, all_targets, indices, splitVars,
                prepVars, c2fVars, loss_table>>

\* lines 276-279
TrainInit ==
    /\ pc = "train"
    /\ losses' = <<>>
    /\ epoch' = 0
    /\ pc' = "epoch"
    /\ UNCHANGED <<trainFrame, batch_log, i, theta, grad, lr, last_epoch, step_count,
                   inputs, targets, outputs, loss, epoch_loss, trace>>

\* the loop left as soon as an epoch loss fails to improve
ContinueTraining_patience(e, ls) ==
    /\ e < num_epochs
    /\ ~(Len(ls) >= 2 /\ ls[Len(ls)] >= ls[Len(ls) - 1])

\* for epoch in range(num_epochs): whether another epoch runs
ContinueTraining(e, ls) == e < num_epochs

\* lines 281-282; epoch is the value range() yields next
EpochHead ==
    /\ pc = "epoch"
    /\ IF ContinueTraining(epoch, losses)
       THEN /\ epoch_loss' = 0
            /\ i' = 0
            /\ batch_log' = <<>>
            /\ pc' = "batch"
       ELSE /\ pc' = "trained"
            /\ UNCHANGED <<epoch_loss, i, batch_log>>
    /\ UNCHANGED <<trainFrame, theta, grad, lr, last_epoch, step_count, epoch,
                   inputs, targets, outputs, loss, losses, trace>>

\* lines 284-286: the data loader yields batch i, or is exhausted
BatchHead ==
    /\ pc = "batch"
    /\ IF i < NumBatches(input_tensor)
       THEN /\ inputs' = Batch(input_tensor, i)
            /\ targets' = Batch(target_tensor, i)
            /\ trace' = <<>>
            /\ pc' = "zero_grad"
       ELSE /\ pc' = "append"
            /\ UNCHANGED <<inputs, targets, trace>>
    /\ UNCHANGED <<trainFrame, batch_log, i, theta, grad, lr, last_epoch, step_count, epoch,
                   outputs, loss, epoch_loss, losses>>

\* the accumulated gradient left in place
ClearedGrad_kept(g) == g

\* what zero_grad leaves in .grad
ClearedGrad(g) == <<>>

\* line 288: optimizer.zero_grad()
ZeroGrad ==
    /\ pc = "zero_grad"
    /\ grad' = ClearedGrad(grad)
    /\ trace' = Append(trace, "zero_grad")
    /\ pc' = "forward"
    /\ UNCHANGED <<trainFrame, batch_log, i, theta, lr, last_epoch, step_count, epoch,
                   inputs, targets, outputs, loss, epoch_loss, losses>>

\* line 291: outputs = model(inputs)
Forward ==
    /\ pc = "forward"
    /\ outputs' = [params |-> theta, batch |-> i]
    /\ trace' = Append(trace, "forward")
    /\ pc' = "criterion"
    /\ UNCHANGED <<trainFrame, batch_log, i, theta, grad, lr, last_epoch, step_count, epoch,
                   inputs, targets, loss, epoch_loss, losses>>

\* line 293: loss = criterion(outputs, targets)
Criterion ==
    /\ pc = "criterion"
    /\ loss' = loss_table[outputs.params]
    /\ trace' = Append(trace, "criterion")
    /\ pc' = "backward"
    /\ UNCHANGED <<trainFrame, batch_log, i, theta, grad, lr, last_epoch, step_count, epoch,
                   inputs, targets, outputs, epoch_loss, losses>>

\* line 296: loss.backward() adds the batch's gradient to .grad
Backward ==
    /\ pc = "backward"
    /\ grad' = Append(grad, <<epoch, outputs.batch>>)
    /\ trace' = Append(trace, "backward")
    /\ pc' = "step"
    /\ UNCHANGED <<trainFrame, batch_log, i, theta, lr, last_epoch, step_count, epoch,
                   inputs, targets, outputs, loss, epoch_loss, losses>>

\* line 297: optimizer.step()
OptimizerStep ==
    /\ pc = "step"
    /\ theta' = IF grad = <<>> THEN theta ELSE 1 - theta
    /\ step_count' = step_count + 1
    /\ batch_log' = Append(batch_log, [inputs |-> inputs, targets |-> targets,
                                       loss |-> loss])
    /\ trace' = Append(trace, "step")
    /\ pc' = "accumulate"
    /\ UNCHANGED <<trainFrame, i, grad, lr, last_epoch, epoch,
                   inputs, targets, outputs, loss, epoch_loss, losses>>

\* line 300: epoch_loss += loss.item(), then the next batch
Accumulate ==
    /\ pc = "accumulate"
    /\ epoch_loss' = epoch_loss + loss
    /\ i' = i + 1
    /\ pc' = "batch"
    /\ UNCHANGED <<trainFrame, batch_log, theta, grad, lr, last_epoch, step_count, epoch,
                   inputs, targets, outputs, loss, losses, trace>>

\* lines 301-302: losses.append(epoch_loss)
AppendLoss ==
    /\ pc = "append"
    /\ losses' = Append(losses, epoch_loss)
    /\ pc' = "scheduler"
    /\ UNCHANGED <<trainFrame, batch_log, i, theta, grad, lr, last_epoch, step_count, epoch,
                   inputs, targets, outputs, loss, epoch_loss, trace>>

\* the decay one scheduler step early
Decays_early(n) == (n + 1) % step_size = 0

\* StepLR: the learning rate is multiplied by gamma when the counter reaches
\* a positive multiple of step_size
Decays(n) == n # 0 /\ n % step_size = 0

\* line 304: scheduler.step(), then the next epoch
SchedulerStep ==
    /\ pc = "scheduler"
    /\ last_epoch' = last_epoch + 1
    /\ lr' = IF Decays(last_epoch') THEN FMul(lr, gamma) ELSE lr
    /\ epoch' = epoch + 1
    /\ pc' = "epoch"
    /\ UNCHANGED <<trainFrame, batch_log, i, theta, grad, step_count,
                   inputs, targets, outputs, loss, epoch_loss, losses, trace>>

\* a normalised training set of n rows and its targets
TrainSizes == {1, BatchSize, BatchSize + MaxExtra}
SampleInputs(n) == [k \in 1..n |-> <<Scaled(Frac(k, 1), Frac(0, 1), Frac(1, 1))>>]
SampleTargets(n) == [k \in 1..n |-> <<Frac(k, 1)>>]

(***************************************************************************)
(* Specification of the data preparation: from the file to the tensors     *)
(***************************************************************************)
vars == <<pc, problem, err, loadVars, extractVars, splitVars, prepVars, c2fVars, trainVars>>

BlankLoad ==
    /\ err = "none"
    /\ jsons = <<>>
    /\ data = <<>>

BlankExtract ==
    /\ i = 0
    /\ all_inputs = <<>>
    /\ all_targets = <<>>
    /\ indices = <<>>

BlankSplit ==
    /\ train_indices = <<>>
    /\ test_indices = <<>>
    /\ inputs_training = <<>>
    /\ targets_training = <<>>
    /\ inputs_testing = <<>>
    /\ targets_testing = <<>>
    /\ scaler = NoScaler

BlankTensors ==
    /\ input_tensor = NoTensor
    /\ target_tensor = NoTensor

BlankCall ==
    /\ s = <<>>
    /\ result = [err |-> "none", value |-> NaN]

Untrained ==
    /\ loss_table = [x \in ThetaStates |-> 0]
    /\ theta = 0
    /\ grad = <<>>
    /\ lr = Frac(0, 1)
    /\ last_epoch = 0
    /\ step_count = 0
    /\ epoch = 0
    /\ inputs = <<>>
    /\ targets = <<>>
    /\ outputs = [params |-> 0, batch |-> 0]
    /\ loss = 0
    /\ epoch_loss = 0
    /\ losses = <<>>
    /\ trace = <<>>
    /\ batch_log = <<>>

Init ==
    /\ pc = "load"
    /\ problem \in {1, 2}
    /\ file \in Files
    /\ BlankLoad
    /\ BlankExtract
    /\ BlankSplit
    /\ BlankTensors
    /\ BlankCall
    /\ Untrained

Next ==
    \/ LoadCell
    \/ DataCell
    \/ ExtractInit
    \/ ExtractStep1
    \/ ExtractStep2
    \/ ExtractFilter
    \/ SplitCell
    \/ ScaleCell
    \/ TensorCell

Spec == Init /\ [][Next]_vars

(***************************************************************************)
(* Specification of char_to_float alone: one call on any label             *)
(***************************************************************************)
Labels == UNION {[1..n -> Alphabet] : n \in 0..MaxLen}

CallCharToFloat ==
    /\ pc = "call"
    /\ result' = char_to_float(s)
    /\ pc' = "returned"
    /\ UNCHANGED <<problem, err, loadVars, extractVars, splitVars, prepVars, s, trainVars>>

InitC2F ==
    /\ pc = "call"
    /\ problem = 2
    /\ file = <<>>
    /\ s \in Labels
    /\ result = [err |-> "none", value |-> NaN]
    /\ BlankLoad
    /\ BlankExtract
    /\ BlankSplit
    /\ BlankTensors
    /\ Untrained

NextC2F == CallCharToFloat

SpecC2F == InitC2F /\ [][NextC2F]_vars

(***************************************************************************)
(* Specification of the split alone: any number of filtered rows           *)
(***************************************************************************)
\* arrays of n rows as the extraction loop leaves them, row k from entry k
SampleRows(p, n) == [k \in 1..n |-> [c \in 1..Width(p) |-> Frac(k + c, 1)]]

InitSplit ==
    /\ pc = "split"
    /\ problem \in {1, 2}
    /\ file = <<>>
    /\ BlankLoad
    /\ \E n \in 0..MaxRows :
          /\ all_inputs = SampleRows(problem, n)
          /\ all_targets = SampleTargets(n)
          /\ indices = [k \in 1..n |-> k - 1]
          /\ i = n
    /\ BlankSplit
    /\ BlankTensors
    /\ BlankCall
    /\ Untrained

NextSplit == SplitCell

SpecSplit == InitSplit /\ [][NextSplit]_vars

\* the state in which the training cell starts: tensors, model, optimizer
\* and scheduler have been created by the cells before it
InitTrain ==
    /\ pc = "train"
    /\ problem \in {1, 2}
    /\ file = <<>>
    /\ BlankLoad
    /\ BlankExtract
    /\ BlankSplit
    /\ BlankCall
    /\ \E n \in TrainSizes :
          /\ input_tensor = torch_tensor(SampleInputs(n))
          /\ target_tensor = torch_tensor(SampleTargets(n))
    /\ loss_table \in LossTables
    /\ theta = 0
    /\ grad = <<>>
    /\ lr = InitialLr
    /\ last_epoch = 0
    /\ step_count = 0
    /\ epoch = 0
    /\ inputs = <<>>
    /\ targets = <<>>
    /\ outputs = [params |-> 0, batch |-> 0]
    /\ loss = 0
    /\ epoch_loss = 0
    /\ losses = <<>>
    /\ trace = <<>>
    /\ batch_log = <<>>

NextTrain ==
    \/ TrainInit
    \/ EpochHead
    \/ BatchHead
    \/ ZeroGrad
    \/ Forward
    \/ Criterion
    \/ Backward
    \/ OptimizerStep
    \/ Accumulate
    \/ AppendLoss
    \/ SchedulerStep

SpecTrain == InitTrain /\ [][NextTrain]_vars

(***************************************************************************)
(* Properties                                                              *)
(***************************************************************************)
\* the fields each extraction loop reads
FieldsRead(p) ==
    IF p = 1
    THEN {"exptl_crystal", "density_matthews", "density_percent_sol"}
    ELSE {"cell", "exptl_crystal", "density_matthews", "symmetry",
          "pdbx_seq_one_letter_code"}

Missing(e, f) == IF f \in TopKeys THEN f \notin e.keys ELSE f \notin e.crystal

MissingAny(p, e) == \E f \in FieldsRead(p) : Missing(e, f)

\* an exception ended the extraction loop at entry i
RaisedInLoop == pc = "error" /\ i < Len(data)

\* C1: in both extraction loops an entry that lacks a field the loop reads is
\* skipped: no exception is raised on it and its index is not appended to
\* indices.
C1_MissingSkipped ==
    /\ RaisedInLoop => ~MissingAny(problem, data[i + 1].entry)
    /\ (pc = "extract_loop" \/ RaisedInLoop) =>
          \A k \in 1..Len(indices) : ~MissingAny(problem, data[indices[k] + 1].entry)

\* --- char_to_float ---
IsLetterToken(t) == Len(t) = 1 /\ t[1] \in Letters
IsNumeral(t) == Len(t) >= 1 /\ \A k \in 1..Len(t) : t[k] \in Digits

\* every token is a single letter or a decimal integer numeral
LettersAndNumerals(str) ==
    \A k \in 1..Len(split(str)) :
        IsLetterToken(split(str)[k]) \/ IsNumeral(split(str)[k])

RECURSIVE Pow10(_)
Pow10(k) == IF k = 0 THEN 1 ELSE 10 * Pow10(k - 1)

RECURSIVE NumeralValue(_)
NumeralValue(t) ==
    IF t = <<>> THEN 0
    ELSE DigitVal(Head(t)) * Pow10(Len(t) - 1) + NumeralValue(Tail(t))

\* character codes of the letter tokens + 100 * the numeric tokens
RECURSIVE CodeSum(_)
CodeSum(ts) ==
    IF ts = <<>> THEN 0
    ELSE (IF IsLetterToken(Head(ts)) THEN ord(Head(ts)[1])
          ELSE 100 * NumeralValue(Head(ts))) + CodeSum(Tail(ts))

MeanEquation(str) ==
    /\ result.err = "none"
    /\ FMul(Frac(100 * Len(split(str)), 1), result.value) = Frac(CodeSum(split(str)), 1)

\* C2 as stated: for every label whose tokens are single letters or decimal
\* integer numerals, 100 * len(tokens) * char_to_float(s) = sum of the letter
\* tokens' character codes + 100 * sum of the numeric tokens.
C2_MeanOfTokens ==
    (pc = "returned" /\ LettersAndNumerals(s)) => MeanEquation(s)

\* C2 as amended: the same for every such label that has at least one token.
C2_MeanOfTokens_NonEmpty ==
    (pc = "returned" /\ LettersAndNumerals(s) /\ Len(split(s)) >= 1) => MeanEquation(s)

\* the label "P 21" has been converted to (80/100 + 21)/2
C2_Witness ==
    /\ pc = "returned"
    /\ s = <<"P", " ", "2", "1">>
    /\ result = [err |-> "none", value |-> <<109, 10>>]

\* C3: char_to_float returns a number for every label over letters, digits,
\* '/', '-' and ':' and never ends in an error.
C3_NeverRaises == pc = "returned" => result.err = "none"

\* --- extraction result ---
Passes(p, e) == IF p = 1 THEN Test1(e) ELSE Test2(e) = "pass"

\* the (0-based) positions of the entries that pass the membership test
PassedIdx(p, d) ==
    SelectSeq([k \in 1..Len(d) |-> k - 1], LAMBDA k : Passes(p, d[k + 1].entry))

ZeroRow(p) == zeros(1, Width(p))[1]

ExpectedRow(p, e) == IF p = 1 THEN Row1(e) ELSE Row2(e, ZeroRow(2)).row

\* C6: after the extraction loop and the filtering by indices, all_inputs and
\* all_targets have one row per entry that passed the membership test, of
\* width 1 or 9 and 1; row k of both comes from the k-th passing entry in
\* dataset order; no zero placeholder row remains.
C6_RowsAligned ==
    pc = "split" =>
        LET idx == PassedIdx(problem, data)
        IN  /\ Len(all_inputs) = Len(idx)
            /\ Len(all_targets) = Len(idx)
            /\ \A k \in 1..Len(idx) :
                  /\ Len(all_inputs[k]) = Width(problem)
                  /\ Len(all_targets[k]) = 1
                  /\ all_inputs[k] = ExpectedRow(problem, data[idx[k] + 1].entry)
                  /\ all_targets[k] = Target(problem, data[idx[k] + 1].entry)
                  /\ all_inputs[k] # ZeroRow(problem)
                  /\ all_targets[k] # ZeroRow(1)

\* Problem 2: the first of two entries was skipped, the second fills row 0
C6_Witness ==
    /\ pc = "split"
    /\ problem = 2
    /\ Len(data) = 2
    /\ indices = <<1>>
    /\ Len(all_inputs) = 1

\* --- loading ---
RECURSIVE Concat(_)
Concat(ss) == IF ss = <<>> THEN <<>> ELSE Head(ss) \o Concat(Tail(ss))

\* C7: data, the list the extraction loops iterate over, holds the records of
\* all lines of the file.
C7_DataHoldsAllLines ==
    pc \in {"extract", "extract_loop", "split", "scale", "tensor", "train"} =>
        data = Concat(ParsedLines(file))

\* --- split ---
Count(seq, x) == Cardinality({k \in 1..Len(seq) : seq[k] = x})

FloorFiveSixths(n) == CHOOSE m \in 0..n : 6 * m <= 5 * n /\ 5 * n < 6 * m + 6

RowVariants(p) ==
    {v \in 1..MaxVal : p = 1 \/ Row2(Full(v), ZeroRow(2)).err = "none"}

TestPositions == {test_indices[k] + 1 : k \in 1..Len(test_indices)}

\* the arrays of a run that differs from this one in the testing rows only
AltInputs(vm) ==
    [r \in 1..Len(all_inputs) |->
        IF r \in TestPositions THEN ExpectedRow(problem, Full(vm[r])) ELSE all_inputs[r]]

AltTargets(vm) ==
    [r \in 1..Len(all_targets) |->
        IF r \in TestPositions THEN Target(problem, Full(vm[r])) ELSE all_targets[r]]

Batches(it, tt) == [b \in 0..(NumBatches(it) - 1) |-> <<Batch(it, b), Batch(tt, b)>>]

\* the split, scaling and tensor cells run on arrays inp, tgt with the same
\* permutation (the seed is fixed, so equal lengths give equal permutations)
RunOn(inp, tgt) ==
    LET tr == TakeRows(inp, train_indices)
        te == TakeRows(inp, test_indices)
        sc == fit(FitRows(tr, te))
        ntr == transform(sc, tr)
        nte == transform(sc, te)
        it == torch_tensor(TensorRows(ntr, nte))
        tt == torch_tensor(TensorRows(TakeRows(tgt, train_indices),
                                      TakeRows(tgt, test_indices)))
    IN  [scaler |-> sc, inputs_training |-> ntr, inputs_testing |-> nte,
         input_tensor |-> it, target_tensor |-> tt, batches |-> Batches(it, tt)]

\* C10: a run that agrees with this one on the training rows and differs in
\* the testing rows has the same scaler parameters, the same normalised
\* training inputs and the same batches; the testing inputs are normalised
\* with the parameters fitted on the training inputs.
C10_HeldOutNoInfluence ==
    pc = "train" =>
        /\ inputs_testing = transform(scaler, TakeRows(all_inputs, test_indices))
        /\ \A vm \in [TestPositions -> RowVariants(problem)] :
              LET run == RunOn(AltInputs(vm), AltTargets(vm))
              IN  /\ run.scaler = scaler
                  /\ run.inputs_training = inputs_training
                  /\ run.input_tensor = input_tensor
                  /\ run.target_tensor = target_tensor
                  /\ run.batches = Batches(input_tensor, target_tensor)

\* the tensors are built and some other run differs in a testing row
C10_Witness ==
    /\ pc = "train"
    /\ Len(train_indices) >= 1
    /\ \E vm \in [TestPositions -> RowVariants(problem)] :
          /\ AltInputs(vm) # all_inputs
          /\ RunOn(AltInputs(vm), AltTargets(vm)).inputs_testing # inputs_testing

\* --- training loop ---
InEpoch == {"batch", "zero_grad", "forward", "criterion", "backward", "step",
            "accumulate"}

\* C4: the loop runs num_epochs = 1000 epochs whatever the losses are and then
\* ends; at every epoch boundary len(losses) is the number of completed
\* epochs, and losses has 1000 entries at the end.
C4_NoEarlyStop ==
    /\ epoch <= num_epochs
    /\ pc = "epoch" => Len(losses) = epoch
    /\ pc \in InEpoch \cup {"append"} => Len(losses) = epoch /\ epoch < num_epochs
    /\ pc = "scheduler" => Len(losses) = epoch + 1
    /\ pc = "trained" => epoch = num_epochs /\ Len(losses) = num_epochs
    /\ pc # "trained" => ENABLED NextTrain

\* all epochs ran although the loss of the second epoch exceeded the first
C4_Witness ==
    /\ pc = "trained"
    /\ Len(losses) = num_epochs
    /\ losses[2] > losses[1]

CallOrder == <<"zero_grad", "forward", "criterion", "backward", "step">>

CallsBefore(p) ==
    CASE p = "zero_grad" -> 0
      [] p = "forward" -> 1
      [] p = "criterion" -> 2
      [] p = "backward" -> 3
      [] p = "step" -> 4
      [] p = "accumulate" -> 5

\* C5: every batch goes through zero_grad, forward, loss, backward, optimizer
\* step in this order, each once; the gradient a step uses is the current
\* batch's; scheduler.step() is called once per epoch, after the epoch's last
\* optimizer step and never between two batches.
C5_BatchOrder ==
    /\ pc \in InEpoch \ {"batch"} => trace = SubSeq(CallOrder, 1, CallsBefore(pc))
    /\ pc = "step" => grad = << <<epoch, i>> >>
    /\ pc \in InEpoch \cup {"epoch", "append", "scheduler", "trained"} =>
          last_epoch = epoch
    /\ pc = "batch" => step_count = epoch * NumBatches(input_tensor) + i
    /\ pc = "accumulate" => step_count = epoch * NumBatches(input_tensor) + i + 1
    /\ pc = "scheduler" =>
          /\ i = NumBatches(input_tensor)
          /\ step_count = (epoch + 1) * NumBatches(input_tensor)

\* the second epoch of a two-batch run is about to call scheduler.step()
C5_Witness ==
    /\ pc = "scheduler"
    /\ epoch = 1
    /\ NumBatches(input_tensor) = 2
    /\ step_count = 4
    /\ last_epoch = 1

RECURSIVE Pow2(_)
Pow2(k) == IF k = 0 THEN 1 ELSE 2 * Pow2(k - 1)

\* x <= y for rationals with positive denominators
FLeq(x, y) == x[1] * y[2] <= y[1] * x[2]

LrOfEpoch ==
    pc \in InEpoch \cup {"append", "scheduler"} =>
        /\ lr = FMul(InitialLr, Frac(1, Pow2(epoch \div step_size)))
        /\ epoch = num_epochs - 1 => lr = FMul(InitialLr, Frac(1, Pow2(19)))

\* C8: the learning rate of every optimizer step of epoch e is
\* lr0 * 0.5^floor(e/50); it never increases; in the last epoch it has been
\* halved exactly 19 times.
C8_LrSchedule == [](LrOfEpoch) /\ [][FLeq(lr', lr)]_vars

\* an optimizer step of the last epoch runs at lr0 / 2^19
C8_Witness ==
    /\ pc = "step"
    /\ epoch = num_epochs - 1
    /\ lr = Frac(1, 1000 * 524288)

\* ceil(n / d), as the least k with k * d >= n
CeilDiv(n, d) == CHOOSE k \in 0..n : k * d >= n /\ \A j \in 0..(k - 1) : j * d < n

RECURSIVE LoggedInputs(_)
LoggedInputs(log) ==
    IF log = <<>> THEN <<>> ELSE log[1].inputs \o LoggedInputs(Tail(log))

RECURSIVE LoggedTargets(_)
LoggedTargets(log) ==
    IF log = <<>> THEN <<>> ELSE log[1].targets \o LoggedTargets(Tail(log))

RECURSIVE LoggedLoss(_)
LoggedLoss(log) == IF log = <<>> THEN 0 ELSE log[1].loss + LoggedLoss(Tail(log))

\* batch b (1-based) of the log is the b-th block of at most 64 stored rows,
\* inputs and targets alike, and only the last block of the data is short
IsBlock(b) ==
    LET N == Len(input_tensor.rows)
        rec == batch_log[b]
        first == BatchSize * (b - 1)
    IN  /\ Len(rec.inputs) \in 1..BatchSize
        /\ Len(rec.targets) = Len(rec.inputs)
        /\ first + Len(rec.inputs) <= N
        /\ Len(rec.inputs) < BatchSize => first + Len(rec.inputs) = N
        /\ \A k \in 1..Len(rec.inputs) :
              /\ rec.inputs[k] = input_tensor.rows[first + k]
              /\ rec.targets[k] = target_tensor.rows[first + k]

\* C11: within an epoch the batches the optimizer steps on are consecutive
\* blocks of at most 64 samples in stored order, only the last one shorter;
\* when the data loader is exhausted they hold each of the N samples exactly
\* once, so every epoch has the same batch sequence and takes ceil(N/64)
\* optimizer steps; epoch_loss starts at 0 and is the sum of the losses of
\* exactly those batches, which is the value appended to losses.
C11_BatchesCoverEpoch ==
    LET N == Len(input_tensor.rows)
        K == CeilDiv(N, BatchSize)
    IN  pc \in InEpoch \cup {"append", "scheduler"} =>
          /\ Len(batch_log) <= K
          /\ \A b \in 1..Len(batch_log) : IsBlock(b)
          /\ pc \in {"batch", "zero_grad", "forward", "criterion", "backward", "step"} =>
                /\ Len(batch_log) = i
                /\ epoch_loss = LoggedLoss(batch_log)
          /\ pc = "accumulate" =>
                /\ Len(batch_log) = i + 1
                /\ epoch_loss + loss = LoggedLoss(batch_log)
          /\ pc \in {"append", "scheduler"} =>
                /\ Len(batch_log) = K
                /\ LoggedInputs(batch_log) = input_tensor.rows
                /\ LoggedTargets(batch_log) = target_tensor.rows
                /\ epoch_loss = LoggedLoss(batch_log)
          /\ pc = "append" => step_count = (epoch + 1) * K
          /\ pc = "scheduler" => losses[epoch + 1] = LoggedLoss(batch_log)

\* the second epoch over more than one full batch ends after two optimizer
\* steps, the second on the short last batch, with two different batch losses
C11_Witness ==
    /\ pc = "append"
    /\ epoch = 1
    /\ Len(input_tensor.rows) > BatchSize
    /\ Len(batch_log) = 2
    /\ Len(batch_log[1].inputs) = BatchSize
    /\ Len(batch_log[2].inputs) < BatchSize
    /\ batch_log[1].loss # batch_log[2].loss
    /\ epoch_loss = batch_log[1].loss + batch_log[2].loss

====
